---- MODULE Spec2Model ----
(***************************************************************************)
(* A model of cpr, a git-based project scaffolder.                         *)
(*                                                                         *)
(*   src/src/config.rs   the service registry (Config) and clone_url      *)
(*   src/src/main.rs     main, new, init, clone_repository and            *)
(*                       prompt_template_questions                         *)
(*   src/src/errors.rs   the error values                                  *)
(*                                                                         *)
(* Strings are sequences of tokens.  The registry is explored under        *)
(* SpecRegistry, one run of the scaffolder under SpecPipeline.             *)
(***************************************************************************)
EXTENDS Naturals, Sequences, FiniteSets

VARIABLES
    services,            \* Config.services: prefix -> URL format
    default_service,     \* Config.default_service
    result,              \* what the last Config method call returned
    pc,                  \* where the run of main is
    repo_path,           \* the reference given on the command line
    url,                 \* the URL handed to RepoBuilder::clone
    tree,                \* the files below the target directory
    content,             \* what each of them holds
    git_dir,             \* whether <directory>/.git exists
    template_questions,  \* the entries of [questions] not yet interpreted
    questions,           \* the prompts built from the entries so far
    template_answers,    \* upon::Value::None, or the map of the answers
    warns,               \* the "! WARN" lines written to stderr
    walker,              \* the entries the directory walk still yields
    path,                \* the entry the loop body is working on
    skip_all,            \* skip read errors without asking
    err,                 \* the error main returned
    log,                 \* the file operations of the walk, in order
    project_name,        \* ProjectInfo.project_name, as the user typed it
    directory,           \* the target directory handed to init
    dirs,                \* the directories that exist in the working directory
    stats,               \* git2::Progress as the last transfer callback saw it
    clone_state,         \* GitCloneState
    bar,                 \* the ProgressBar, and how often it was reset
    fmt_value,           \* the upon::Value a formatter is applied to
    fmt_out,             \* what the formatter wrote to its fmt::Formatter
    fmt_result           \* the fmt::Result it returned

regVars == <<services, default_service, result>>

pipeVars == <<pc, repo_path, url, tree, content, git_dir, template_questions,
              questions, template_answers, warns, walker, path, skip_all, err, log,
              project_name, directory, dirs>>

cloneVars == <<stats, clone_state, bar>>

fmtVars == <<fmt_value, fmt_out, fmt_result>>

vars == <<regVars, pipeVars, cloneVars, fmtVars>>

----------------------------------------------------------------------------
(* Strings                                                                 *)

\* The literal "{{ repo }}" of clone_url, as two tokens.
Marker == <<"{{ repo", " }}">>

\* Whether `pat` occurs in `s` at position i.
MatchAt(s, i, pat) ==
    /\ i + Len(pat) - 1 <= Len(s)
    /\ \A k \in 1..Len(pat) : s[i + k - 1] = pat[k]

RECURSIVE ReplaceFrom(_, _, _, _)
\* str::replace from position i on: the matches are found left to right, do
\* not overlap, and the replacement is not scanned again.
ReplaceFrom(s, i, pat, to) ==
    IF i > Len(s) THEN <<>>
    ELSE IF MatchAt(s, i, pat)
         THEN to \o ReplaceFrom(s, i + Len(pat), pat, to)
         ELSE <<s[i]>> \o ReplaceFrom(s, i + 1, pat, to)

Replace(s, pat, to) == ReplaceFrom(s, 1, pat, to)

\* All sequences over S of length at most n.
BoundedSeq(S, n) == UNION {[1..k -> S] : k \in 0..n}

----------------------------------------------------------------------------
(* The service registry: src/src/config.rs                                 *)

MaxPathLen == 2

Prefixes == {"gh", "gl", "sr"}

GithubUrl == <<"https://github.com/", "{{ repo", " }}", ".git">>

\* The URL formats a user may register: one marker, a broken marker before
\* two markers (the last at the end), and no marker at all.
UrlFormats ==
    { GithubUrl,
      <<"{{ repo", "{{ repo", " }}", "/", "{{ repo", " }}">>,
      <<"ssh://git@host/">> }

PathTokens == {"org/template", "{{ repo", " }}"}

RepoPaths == BoundedSeq(PathTokens, MaxPathLen)

\* Config::init: the registry written to a fresh configuration file.
ConfigInitServices == [p \in {"gh"} |-> GithubUrl]

ConfigInitDefault == "gh"

\* HashMap::get(&self.default_service).expect("No default prefix found")
LookupDefault(svc, dflt) ==
    IF dflt \in DOMAIN svc
    THEN <<"Some", svc[dflt]>>
    ELSE <<"Panic", "No default prefix found">>

\* A mutant of LookupService: the requested prefix is ignored.
LookupService_DefaultOnly(svc, dflt, prefix) == LookupDefault(svc, dflt)

\* self.services.get(prefix).unwrap_or_else(|| ... default ...)
LookupService(svc, dflt, prefix) ==
    IF prefix \in DOMAIN svc
    THEN <<"Some", svc[prefix]>>
    ELSE LookupDefault(svc, dflt)

\* Config::clone_url as a function of the registry and its arguments.
CloneUrl(svc, dflt, prefix, repo) ==
    LET base_url == LookupService(svc, dflt, prefix)
    IN  IF base_url[1] = "Some"
        THEN <<"Ok", Replace(base_url[2], Marker, repo)>>
        ELSE base_url

clone_url ==
    \E prefix \in Prefixes, repo \in RepoPaths :
        /\ result' = [op |-> "clone_url", prefix |-> prefix, repo_path |-> repo,
                      ret |-> CloneUrl(services, default_service, prefix, repo)]
        /\ UNCHANGED <<services, default_service>>
        /\ UNCHANGED <<pipeVars, cloneVars, fmtVars>>

add_service ==
    \E prefix \in Prefixes, format \in UrlFormats :
        /\ services' = [p \in DOMAIN services \cup {prefix} |->
                            IF p = prefix THEN format ELSE services[p]]
        /\ result' = [op |-> "add_service", prefix |-> prefix, repo_path |-> <<>>,
                      ret |-> <<"Ok">>]
        /\ UNCHANGED default_service
        /\ UNCHANGED <<pipeVars, cloneVars, fmtVars>>

remove_service ==
    \E prefix \in Prefixes :
        /\ services' = [p \in DOMAIN services \ {prefix} |-> services[p]]
        /\ result' = [op |-> "remove_service", prefix |-> prefix, repo_path |-> <<>>,
                      ret |-> IF prefix \in DOMAIN services
                              THEN <<"Ok">>
                              ELSE <<"Err", "ServiceNotFound">>]
        /\ UNCHANGED default_service
        /\ UNCHANGED <<pipeVars, cloneVars, fmtVars>>

\* A mutant of SetDefault: the prefix is not looked up first.
SetDefault_Unchecked(svc, dflt, prefix) == prefix

\* if self.services.contains_key(prefix) { self.default_service = prefix }
SetDefault(svc, dflt, prefix) == IF prefix \in DOMAIN svc THEN prefix ELSE dflt

set_default_service ==
    \E prefix \in Prefixes :
        /\ default_service' = SetDefault(services, default_service, prefix)
        /\ result' = [op |-> "set_default_service", prefix |-> prefix, repo_path |-> <<>>,
                      ret |-> IF prefix \in DOMAIN services
                              THEN <<"Ok">>
                              ELSE <<"Err", "ServiceNotFound">>]
        /\ UNCHANGED services
        /\ UNCHANGED <<pipeVars, cloneVars, fmtVars>>


----------------------------------------------------------------------------
(* The checkout on disk and the directory walk: src/src/main.rs            *)

MaxFiles == 3

\* The file names of the model in the byte order sort_by_file_name compares
\* them in.  "\\xFF.bin" stands for a name that is not valid UTF-8.
FileNames == <<".git", "HEAD", "a.txt", "cpr.toml", "src", "\\xFF.bin">>

NameIndex(name) == CHOOSE i \in 1..Len(FileNames) : FileNames[i] = name

\* OsStr::to_str() of a file name is Some exactly for a UTF-8 name.
IsUtf8(name) == name # "\\xFF.bin"

\* directory.join("cpr.toml"), relative to the target directory.
CprPath == <<"cpr.toml">>

\* The files a template repository may hold, as paths below its root.
FileUniverse ==
    { <<"a.txt">>, <<"cpr.toml">>, <<"src", "a.txt">>, <<"src", "cpr.toml">>,
      <<"\\xFF.bin">> }

Trees == {t \in SUBSET FileUniverse : Cardinality(t) <= MaxFiles}

\* What is on disk below the target directory.
DiskFiles(files, git) == IF git THEN files \cup {<<".git", "HEAD">>} ELSE files

IsPrefix(p, q) == Len(p) < Len(q) /\ SubSeq(q, 1, Len(p)) = p

IsDir(files, p) == \E q \in files : IsPrefix(p, q)

Dirs(files) == {p \in {<<>>} \cup {<<q[1]>> : q \in files} : IsDir(files, p)}

Children(files, dir) == {q[Len(dir) + 1] : q \in {f \in files : IsPrefix(dir, f)}}

RECURSIVE SortAscending(_)
SortAscending(names) ==
    IF names = {} THEN <<>>
    ELSE LET first == CHOOSE n \in names :
                         \A m \in names : NameIndex(n) <= NameIndex(m)
         IN  <<first>> \o SortAscending(names \ {first})

\* WalkDir::sort_by_file_name: the entries of one directory, by name.
SortByFileName(names) == SortAscending(names)

RECURSIVE WalkDirFrom(_, _, _)
RECURSIVE WalkChildren(_, _, _, _)
\* walkdir's iterator from `dir` on: the directory itself, then (depth first)
\* its sorted entries; a directory that cannot be listed yields an Err item
\* in place of its entries.
WalkDirFrom(files, unreadable, dir) ==
    <<[path |-> dir, is_dir |-> TRUE, ok |-> TRUE]>> \o
    IF dir \in unreadable
    THEN <<[path |-> dir, is_dir |-> TRUE, ok |-> FALSE]>>
    ELSE WalkChildren(files, unreadable, dir, SortByFileName(Children(files, dir)))

WalkChildren(files, unreadable, dir, names) ==
    IF names = <<>> THEN <<>>
    ELSE LET child == Append(dir, Head(names))
         IN  (IF IsDir(files, child)
              THEN WalkDirFrom(files, unreadable, child)
              ELSE <<[path |-> child, is_dir |-> FALSE, ok |-> TRUE]>>)
             \o WalkChildren(files, unreadable, dir, Tail(names))

\* walker.into_iter().filter_map(|e| e.ok()): the Err items are dropped.
FilterMapOk(entries) ==
    LET IsOk(e) == e.ok
    IN  SelectSeq(entries, IsOk)

\* A mutant of Walks: cpr.toml is left out of the walk.
Walks_WithoutCpr(files) ==
    {LET NotCpr(e) == e.path # CprPath
     IN  SelectSeq(FilterMapOk(WalkDirFrom(files, unreadable, <<>>)), NotCpr) :
        unreadable \in SUBSET Dirs(files)}

\* The walks the loop of init may see: any set of directories may fail to
\* be listed.
Walks(files) ==
    {FilterMapOk(WalkDirFrom(files, unreadable, <<>>)) :
        unreadable \in SUBSET Dirs(files)}

----------------------------------------------------------------------------
(* cpr.toml and prompt_template_questions: src/src/main.rs                 *)

MaxQuestions == 2

\* toml::Value, as far as the interpreter tells its variants apart; Absent
\* is Table::get returning None.
Absent == <<"Absent">>

TInteger == <<"Integer">>

TString(s) == <<"String", s>>

TArray(a) == <<"Array", a>>

TTable(key, message, type, choices) ==
    <<"Table", [key |-> key, message |-> message, type |-> type, choices |-> choices]>>

QuestionTypes ==
    {"confirm", "input", "int", "float", "select", "multi_select", "order_select"}

SelectTypes == {"select", "multi_select", "order_select"}

\* The reserved choice that stands for a separator line.
CprSep == "cpr_sep"

\* The elements a [questions] array of cpr.toml is drawn from: well-formed
\* entries, with and without choices, and entries with one thing wrong.
QuestionEntries ==
    { TInteger,
      TTable(Absent, TString("m"), TString("confirm"), Absent),
      TTable(TString("k1"), TInteger, TString("confirm"), Absent),
      TTable(TString("k1"), TString("m"), Absent, Absent),
      TTable(TString("k1"), TString("m"), TString("bogus"), Absent),
      TTable(TString("k1"), TString("m"), TString("confirm"), Absent),
      TTable(TString("k2"), TString("m"), TString("input"), Absent),
      TTable(TString("k2"), TString("m"), TString("select"), Absent),
      TTable(TString("k2"), TString("m"), TString("select"), TInteger),
      TTable(TString("k2"), TString("m"), TString("select"),
             TArray(<<TString("a"), TString(CprSep)>>)),
      TTable(TString("k1"), TString("m"), TString("order_select"),
             TArray(<<TString(CprSep), TString("b")>>)),
      TTable(TString("k1"), TString("m"), TString("multi_select"),
             TArray(<<TInteger>>)) }

\* What toml::de::from_str may return for cpr.toml: a table without
\* `questions`, with a `questions` that is no array, or with an array.
CprDocuments ==
    {Absent, TInteger} \cup {TArray(a) : a \in BoundedSeq(QuestionEntries, MaxQuestions)}

MaxChoices == 3

MaxEntries == 3

\* The values a `choices` array is drawn from: two choices, the separator,
\* and a value that is no string.
ChoiceValues == {TString("a"), TString("b"), TString(CprSep), TInteger}

ChoiceArrays == BoundedSeq(ChoiceValues, MaxChoices)

\* Selection entries over every `choices` array.
SelectionEntries ==
    {TTable(TString("k3"), TString("m"), TString(ty), TArray(choices)) :
        ty \in SelectTypes, choices \in ChoiceArrays}

\* Entries without choices: accepted ones, an unknown type, an element that
\* is no table, and a table without key.
PlainEntries ==
    { TInteger,
      TTable(Absent, TString("m"), TString("confirm"), Absent),
      TTable(TString("k1"), TString("m"), TString("confirm"), Absent),
      TTable(TString("k2"), TString("m"), TString("input"), Absent),
      TTable(TString("k4"), TString("m"), TString("bogus"), Absent) }

\* The [questions] arrays prompt_template_questions is explored on: arrays
\* of plain entries, and a selection entry with at most one plain entry
\* before it and one after it.
QuestionArrays ==
    LET beside == BoundedSeq(PlainEntries, 1)
    IN  BoundedSeq(PlainEntries, MaxEntries) \cup
        {before \o <<entry>> \o after :
            entry \in SelectionEntries, before \in beside, after \in beside}

RECURSIVE BuildItems(_)
\* The loop over `choices`: items gets a separator for "cpr_sep" and a
\* choice for any other string, items_raw the other strings alone; a value
\* that is no string adds to neither.
BuildItems(choices) ==
    IF choices = <<>> THEN [items |-> <<>>, items_raw |-> <<>>]
    ELSE LET rest == BuildItems(Tail(choices))
             choice == Head(choices)
         IN  IF choice[1] # "String" THEN rest
             ELSE IF choice[2] = CprSep
                  THEN [items |-> <<(<<"DefaultSeparator">>)>> \o rest.items,
                        items_raw |-> rest.items_raw]
                  ELSE [items |-> <<(<<"Choice", choice[2]>>)>> \o rest.items,
                        items_raw |-> <<choice[2]>> \o rest.items_raw]

\* Option::unwrap() on table.get(field), then on as_str().
UnwrapsToStr(v) == v[1] = "String"

\* The question requestty is handed for a well-formed entry.
Prompt(type, key, message, choices) ==
    [type |-> type, name |-> key, message |-> message, choices |-> choices]

\* A mutant of ChoicesFor: an order_select is given `items`, separators
\* and all, like the other two.
ChoicesFor_AlwaysItems(ty, built) == built.items

\* The match that builds the question: select and multi_select are given
\* `items`, order_select is given `items_raw`.
ChoicesFor(ty, built) ==
    IF ty = "order_select"
    THEN [i \in 1..Len(built.items_raw) |-> <<"Choice", built.items_raw[i]>>]
    ELSE built.items

\* A mutant of UnknownType: a type that is none of the seven is unwrapped
\* like a missing field.
UnknownType_Panics(ty, key) == [out |-> "panic"]

\* The last arm of the match on the type: a warning, and nothing pushed.
UnknownType(ty, key) == [out |-> "warn", warn |-> "UnknownType"]

\* The arm of the match for a table: what the entry adds to `questions`,
\* or the warning it is skipped with, or the panic of an unwrap() on a field
\* that is missing or of another type.
InterpretTable(table) ==
    IF \/ ~UnwrapsToStr(table.key)
       \/ ~UnwrapsToStr(table.message)
       \/ ~UnwrapsToStr(table.type)
    THEN [out |-> "panic"]
    ELSE LET key == table.key[2]
             message == table.message[2]
             ty == table.type[2]
         IN  IF ty \in {"confirm", "input", "int", "float"}
             THEN [out |-> "push", question |-> Prompt(ty, key, message, <<>>)]
             ELSE IF ty \in SelectTypes
             THEN IF table.choices = Absent
                  THEN [out |-> "panic"]
                  ELSE IF table.choices[1] # "Array"
                  THEN [out |-> "warn", warn |-> "ChoicesNotArray"]
                  ELSE [out |-> "push",
                        question |->
                           Prompt(ty, key, message,
                                  ChoicesFor(ty, BuildItems(table.choices[2])))]
             ELSE UnknownType(ty, key)

\* A mutant of InterpretEntry: an element that is no table is unwrapped
\* like a missing field.
InterpretEntry_UnwrapsTable(entry) ==
    IF entry[1] # "Table" THEN [out |-> "panic"] ELSE InterpretTable(entry[2])

\* One turn of the loop of prompt_template_questions: an element that is
\* no table is skipped with a warning.
InterpretEntry(entry) ==
    IF entry[1] # "Table"
    THEN [out |-> "warn", warn |-> "ElementNotTable"]
    ELSE InterpretTable(entry[2])

----------------------------------------------------------------------------
(* One run of the program: main, new, init: src/src/main.rs                *)

\* The references given on the command line: a bare path, and prefix:path.
References == {<<"org/template">>, <<"gh", ":", "org/template">>}

\* format!("https://github.com/{}.git", repo_path)
GitUrl(repo) == <<"https://github.com/">> \o repo \o <<".git">>

\* A `?` on an Err: main returns the error.
Fail(e) == pc' = "Failed" /\ err' = e

\* An unwrap() on None: the thread panics.
Panic(where) == pc' = "Panicked" /\ err' = <<"panic", where>>

FileName(p) == p[Len(p)]

\* The project names the user may type at the prompt of prompt_project_info.
ProjectNames == {"MyApp", "myapp"}

\* The directory argument of `cpr init`.
InitDirectory == "myapp"

\* A mutant of ToLowercase: the name is used as it was typed.
ToLowercase_Identity(name) == name

\* str::to_lowercase on the names of the model.
ToLowercase(name) == IF name = "MyApp" THEN "myapp" ELSE name

\* A mutant of Exists: the path is taken to exist.
Exists_Always(entries, p) == TRUE

\* Path::exists: whether `p` is among the entries on disk.
Exists(entries, p) == p \in entries

\* Cli::parse and prompt_project_info, up to the call of init or new.
main ==
    /\ pc = "Main"
    /\ \/ /\ Fail(<<"PromptError">>)
          /\ UNCHANGED <<project_name, directory>>
       \/ \E name \in ProjectNames :
            /\ project_name' = name
            /\ \/ pc' = "Cloning" /\ directory' = InitDirectory
               \/ pc' = "New" /\ directory' = directory
            /\ err' = err
    /\ UNCHANGED <<repo_path, url, tree, content, git_dir, template_questions,
                   questions, template_answers, warns, walker, path, skip_all, log,
                   dirs>>
    /\ UNCHANGED <<regVars, cloneVars, fmtVars>>

\* new, up to its call of init: the project directory is the lower-cased
\* project name, must not exist yet, and is created.
new ==
    /\ pc = "New"
    /\ LET project_dir == ToLowercase(project_name)
       IN  \/ /\ Exists(dirs, project_dir)
              /\ Fail(<<"ProjectDirExists">>)
              /\ UNCHANGED <<directory, dirs>>
           \/ /\ ~Exists(dirs, project_dir)
              /\ Fail(<<"ProjectDirCreateFail">>)
              /\ UNCHANGED <<directory, dirs>>
           \/ /\ ~Exists(dirs, project_dir)
              /\ dirs' = dirs \cup {project_dir}
              /\ directory' = project_dir
              /\ pc' = "Cloning"
              /\ err' = err
    /\ UNCHANGED <<repo_path, url, tree, content, git_dir, template_questions,
                   questions, template_answers, warns, walker, path, skip_all, log,
                   project_name>>
    /\ UNCHANGED <<regVars, cloneVars, fmtVars>>

\* A mutant of AfterRemoveGit: a failure to remove .git is ignored.
AfterRemoveGit_Ignored(removed) == "SchemaCheck"

\* remove_dir_all(directory.join(".git")) with map_err and `?`: clone_repository
\* returns Ok to init when .git was removed and GitCloneFail when not.
AfterRemoveGit(removed) == IF removed THEN "SchemaCheck" ELSE "Failed"

\* clone_repository: the clone, then the removal of .git.
clone_repository ==
    /\ pc = "Cloning"
    /\ url' = GitUrl(repo_path)
    /\ \/ /\ Fail(<<"GitRepoNotFound">>)
          /\ UNCHANGED <<tree, content, git_dir, dirs>>
       \/ /\ Fail(<<"GitCloneFail">>)
          /\ UNCHANGED <<tree, content, git_dir, dirs>>
       \/ \E checkout \in Trees, removed \in BOOLEAN :
            /\ tree' = checkout
            /\ content' = [f \in checkout |-> "original"]
            /\ dirs' = dirs \cup {directory}
            /\ git_dir' = ~removed
            /\ IF AfterRemoveGit(removed) = "Failed"
               THEN Fail(<<"GitCloneFail">>)
               ELSE pc' = AfterRemoveGit(removed) /\ err' = err
    /\ UNCHANGED <<repo_path, template_questions, questions, template_answers,
                   warns, walker, path, skip_all, log, project_name, directory>>
    /\ UNCHANGED <<regVars, cloneVars, fmtVars>>

\* A mutant of StartWalk: the loop over the walk is passed over.
StartWalk_SkipsLoop ==
    /\ pc' = "Cleanup"
    /\ walker' \in Walks(DiskFiles(tree, git_dir))

\* WalkDir::new(&directory).sort_by_file_name() and what it will yield.
StartWalk ==
    /\ pc' = "Walking"
    /\ walker' \in Walks(DiskFiles(tree, git_dir))

\* init from `let cpr_path` to the match on the parsed cpr.toml.
schema_check ==
    /\ pc = "SchemaCheck"
    /\ \/ /\ ~Exists(tree, CprPath)
          /\ StartWalk
          /\ UNCHANGED <<err, warns, template_questions>>
       \/ /\ Exists(tree, CprPath)
          /\ Fail(<<"FileReadFail">>)
          /\ UNCHANGED <<walker, warns, template_questions>>
       \/ /\ Exists(tree, CprPath)
          /\ Fail(<<"TomlParseFail">>)
          /\ UNCHANGED <<walker, warns, template_questions>>
       \/ /\ Exists(tree, CprPath)
          /\ \E qs \in CprDocuments :
                \/ /\ qs = Absent
                   /\ warns' = Append(warns, "NoQuestions")
                   /\ StartWalk
                   /\ UNCHANGED <<err, template_questions>>
                \/ /\ qs # Absent /\ qs[1] # "Array"
                   /\ warns' = Append(warns, "QuestionsNotArray")
                   /\ StartWalk
                   /\ UNCHANGED <<err, template_questions>>
                \/ /\ qs[1] = "Array"
                   /\ template_questions' = qs[2]
                   /\ pc' = "Prompting"
                   /\ UNCHANGED <<err, warns, walker>>
    /\ UNCHANGED <<repo_path, url, tree, content, git_dir, questions,
                   template_answers, path, skip_all, log>>
    /\ UNCHANGED <<project_name, directory, dirs>>
    /\ UNCHANGED <<regVars, cloneVars, fmtVars>>

\* A mutant of Push: the question is put in front of the others.
Push_Front(vec, question) == <<question>> \o vec

\* Vec::push
Push(vec, question) == Append(vec, question)

\* One turn of the loop of prompt_template_questions.
interpret_question ==
    /\ pc = "Prompting"
    /\ template_questions # <<>>
    /\ LET r == InterpretEntry(Head(template_questions))
       IN  \/ /\ r.out = "push"
              /\ questions' = Push(questions, r.question)
              /\ UNCHANGED <<pc, err, warns>>
           \/ /\ r.out = "warn"
              /\ warns' = Append(warns, r.warn)
              /\ UNCHANGED <<pc, err, questions>>
           \/ /\ r.out = "panic"
              /\ Panic("prompt_template_questions")
              /\ UNCHANGED <<questions, warns>>
    /\ template_questions' = Tail(template_questions)
    /\ UNCHANGED <<repo_path, url, tree, content, git_dir, template_answers,
                   walker, path, skip_all, log>>
    /\ UNCHANGED <<project_name, directory, dirs>>
    /\ UNCHANGED <<regVars, cloneVars, fmtVars>>

\* requestty::prompt(questions) and the map built from its answers.
prompt_questions ==
    /\ pc = "Prompting"
    /\ template_questions = <<>>
    /\ \/ /\ Fail(<<"PromptError">>)
          /\ UNCHANGED <<template_answers, walker>>
       \/ /\ template_answers' = "Map"
          /\ StartWalk
          /\ err' = err
    /\ questions' = <<>>
    /\ UNCHANGED <<repo_path, url, tree, content, git_dir, template_questions,
                   warns, path, skip_all, log>>
    /\ UNCHANGED <<project_name, directory, dirs>>
    /\ UNCHANGED <<regVars, cloneVars, fmtVars>>

\* The head of the for loop: the next entry of the walk; a directory is
\* passed over, and after the last entry the loop ends.
walk_next ==
    /\ pc = "Walking"
    /\ \/ /\ walker = <<>>
          /\ pc' = "Cleanup"
          /\ UNCHANGED <<walker, path>>
       \/ /\ walker # <<>> /\ Head(walker).is_dir
          /\ walker' = Tail(walker)
          /\ UNCHANGED <<pc, path>>
       \/ /\ walker # <<>> /\ ~Head(walker).is_dir
          /\ walker' = Tail(walker)
          /\ path' = Head(walker).path
          /\ pc' = "Reading"
    /\ UNCHANGED <<repo_path, url, tree, content, git_dir, template_questions,
                   questions, template_answers, warns, skip_all, err, log>>
    /\ UNCHANGED <<project_name, directory, dirs>>
    /\ UNCHANGED <<regVars, cloneVars, fmtVars>>

\* The answers of the err_policy prompt.
ErrPolicies == {"Skip this error", "Skip all future errors", "Abort"}

\* A mutant of ErrPolicy: "Abort" skips the file like "Skip this error".
ErrPolicy_AbortSkips(choice) ==
    IF choice = "Skip all future errors" THEN "skip_all" ELSE "continue"

\* The match on the answer of the err_policy prompt.
ErrPolicy(choice) ==
    CASE choice = "Skip this error" -> "continue"
      [] choice = "Skip all future errors" -> "skip_all"
      [] choice = "Abort" -> "return"

\* if skip_all { continue; }
SkipsSilently(flag) == flag

\* read_to_string(&path) and, when it fails, the error policy.  The error
\* value is built from the file name first, which panics on a name that is
\* not UTF-8.
read_file ==
    /\ pc = "Reading"
    /\ \/ /\ log' = Append(log, <<"read", path>>)
          /\ pc' = "Rendering"
          /\ UNCHANGED <<err, skip_all>>
       \/ /\ ~IsUtf8(FileName(path))
          /\ log' = Append(log, <<"read_failed", path>>)
          /\ Panic("read_to_string")
          /\ UNCHANGED skip_all
       \/ /\ IsUtf8(FileName(path))
          /\ SkipsSilently(skip_all)
          /\ log' = Append(log, <<"skipped", path>>)
          /\ pc' = "Walking"
          /\ UNCHANGED <<err, skip_all>>
       \/ /\ IsUtf8(FileName(path))
          /\ ~SkipsSilently(skip_all)
          /\ log' = Append(log, <<"prompt_failed", path>>)
          /\ Fail(<<"PromptError">>)
          /\ UNCHANGED skip_all
       \/ /\ IsUtf8(FileName(path))
          /\ ~SkipsSilently(skip_all)
          /\ \E choice \in ErrPolicies :
                /\ log' = Append(log, <<choice, path>>)
                /\ \/ /\ ErrPolicy(choice) = "continue"
                      /\ pc' = "Walking"
                      /\ UNCHANGED <<err, skip_all>>
                   \/ /\ ErrPolicy(choice) = "skip_all"
                      /\ skip_all' = TRUE
                      /\ pc' = "Walking"
                      /\ UNCHANGED err
                   \/ /\ ErrPolicy(choice) = "return"
                      /\ Fail(<<"ReadFileFail", FileName(path)>>)
                      /\ UNCHANGED skip_all
    /\ UNCHANGED <<repo_path, url, tree, content, git_dir, template_questions,
                   questions, template_answers, warns, walker, path>>
    /\ UNCHANGED <<project_name, directory, dirs>>
    /\ UNCHANGED <<regVars, cloneVars, fmtVars>>

\* engine.add_template("tmp", contents) and the render of it.
render_file ==
    /\ pc = "Rendering"
    /\ \/ /\ log' = Append(log, <<"add_template_failed", path>>)
          /\ Fail(<<"TemplateSyntaxError">>)
       \/ /\ log' = Append(log, <<"render_failed", path>>)
          /\ Fail(<<"RenderError">>)
       \/ /\ log' = Append(log, <<"rendered", path>>)
          /\ pc' = "Writing"
          /\ err' = err
    /\ UNCHANGED <<repo_path, url, tree, content, git_dir, template_questions,
                   questions, template_answers, warns, walker, path, skip_all>>
    /\ UNCHANGED <<project_name, directory, dirs>>
    /\ UNCHANGED <<regVars, cloneVars, fmtVars>>

\* What a failed std::fs::write may leave in the file: it fails before the
\* file is opened, or after it was truncated.
AfterFailedWrite(old) == {old, "truncated"}

\* A mutant of FsWrite: nothing reaches the file.
FsWrite_Nothing(files, p) == files

\* A std::fs::write(&path, result) that succeeds.
FsWrite(files, p) == [files EXCEPT ![p] = "rendered"]

\* std::fs::write(&path, result); a failure is returned as WriteFileFail
\* with the file name, which panics on a name that is not UTF-8.
write_file ==
    /\ pc = "Writing"
    /\ \/ /\ content' = FsWrite(content, path)
          /\ log' = Append(log, <<"written", path>>)
          /\ pc' = "Walking"
          /\ err' = err
       \/ /\ IsUtf8(FileName(path))
          /\ \E left \in AfterFailedWrite(content[path]) :
                content' = [content EXCEPT ![path] = left]
          /\ log' = Append(log, <<"write_failed", path>>)
          /\ Fail(<<"WriteFileFail", FileName(path)>>)
       \/ /\ ~IsUtf8(FileName(path))
          /\ \E left \in AfterFailedWrite(content[path]) :
                content' = [content EXCEPT ![path] = left]
          /\ log' = Append(log, <<"write_failed", path>>)
          /\ Panic("write")
    /\ UNCHANGED <<repo_path, url, tree, git_dir, template_questions,
                   questions, template_answers, warns, walker, path, skip_all>>
    /\ UNCHANGED <<project_name, directory, dirs>>
    /\ UNCHANGED <<regVars, cloneVars, fmtVars>>

\* A mutant of AfterRemoveCpr: a failure to remove cpr.toml fails the run.
AfterRemoveCpr_Fatal(removed) == IF removed THEN "Done" ELSE "Failed"

\* What follows remove_file(cpr_path): is_err() leads to a warning alone,
\* and init returns Ok either way.
AfterRemoveCpr(removed) == "Done"

\* The end of init: cpr.toml is removed, and a failure to remove it is a
\* warning.
cleanup ==
    /\ pc = "Cleanup"
    /\ \/ /\ ~Exists(tree, CprPath)
          /\ pc' = "Done"
          /\ UNCHANGED <<tree, content, warns>>
       \/ /\ Exists(tree, CprPath)
          /\ tree' = tree \ {CprPath}
          /\ content' = [f \in tree \ {CprPath} |-> content[f]]
          /\ pc' = AfterRemoveCpr(TRUE)
          /\ UNCHANGED warns
       \/ /\ Exists(tree, CprPath)
          /\ warns' = Append(warns, "RemoveFailed")
          /\ pc' = AfterRemoveCpr(FALSE)
          /\ UNCHANGED <<tree, content>>
    /\ UNCHANGED <<repo_path, url, git_dir, template_questions, questions,
                   template_answers, walker, path, skip_all, err, log>>
    /\ UNCHANGED <<project_name, directory, dirs>>
    /\ UNCHANGED <<regVars, cloneVars, fmtVars>>

----------------------------------------------------------------------------
(* The progress bar of a clone: clone_repository, src/src/main.rs          *)

MaxObjects == 3

MaxDeltas == 2

\* git2::Progress before the first callback of a clone.
NoStats ==
    [total_objects |-> 0, received_objects |-> 0,
     total_deltas |-> 0, indexed_deltas |-> 0, phase |-> "fetch"]

\* What the next transfer callback may report: the totals are those of the
\* pack, the objects received never go back, deltas are indexed only once
\* every object was received, and something has moved since the last call.
NextStats(s) ==
    { t \in [total_objects : 1..MaxObjects, received_objects : 0..MaxObjects,
             total_deltas : 0..MaxDeltas, indexed_deltas : 0..MaxDeltas,
             phase : {"fetch"}] :
        /\ t.received_objects <= t.total_objects
        /\ t.indexed_deltas <= t.total_deltas
        /\ t.indexed_deltas > 0 => t.received_objects = t.total_objects
        /\ s # NoStats =>
              /\ t.total_objects = s.total_objects
              /\ t.total_deltas = s.total_deltas
              /\ t.received_objects >= s.received_objects
              /\ t.indexed_deltas >= s.indexed_deltas
              /\ <<t.received_objects, t.indexed_deltas>> #
                    <<s.received_objects, s.indexed_deltas>> }

\* GitCloneState as clone_repository builds it.
NewCloneState ==
    [total |-> 0, current |-> 0, path |-> "None", started_resolution |-> FALSE]

\* ProgressBar::new(100), with the number of calls of reset() so far.
NewBar == [length |-> 100, position |-> 0, message |-> <<>>, resets |-> 0]

\* ProgressBar::reset: the position goes back to 0.
BarReset(b) == [b EXCEPT !.position = 0, !.resets = @ + 1]

\* The closure given to RemoteCallbacks::transfer_progress.
transfer_progress ==
    /\ stats.phase = "fetch"
    /\ \E t \in NextStats(stats) :
          /\ stats' = t
          /\ IF t.received_objects = t.total_objects
             THEN /\ bar' = [(IF clone_state.started_resolution
                              THEN BarReset(bar) ELSE bar)
                                EXCEPT !.message = <<"Resolving deltas",
                                                     t.indexed_deltas, t.total_deltas>>,
                                       !.length = t.total_deltas,
                                       !.position = t.indexed_deltas]
                  /\ clone_state' = [clone_state EXCEPT
                                        !.total = t.total_objects,
                                        !.current = t.received_objects,
                                        !.started_resolution = TRUE]
             ELSE /\ bar' = [bar EXCEPT !.length = t.total_objects,
                                        !.position = t.received_objects,
                                        !.message = <<"Cloning", t.received_objects,
                                                      t.total_objects>>]
                  /\ clone_state' = [clone_state EXCEPT
                                        !.total = t.total_objects,
                                        !.current = t.received_objects]
    /\ UNCHANGED <<regVars, pipeVars, fmtVars>>

\* The closure given to CheckoutBuilder::progress: the checkout follows the
\* fetch and reports each file it has written.
checkout_progress ==
    /\ stats # NoStats
    /\ stats.received_objects = stats.total_objects
    /\ stats.indexed_deltas = stats.total_deltas
    /\ \E total \in 1..MaxFiles, cur \in 0..MaxFiles :
          /\ cur <= total
          /\ stats.phase = "checkout" =>
                (total = clone_state.total /\ cur > clone_state.current)
          /\ clone_state' = [clone_state EXCEPT
                                !.path = IF cur = 0 THEN "None" ELSE "Some",
                                !.current = cur,
                                !.total = total]
          /\ bar' = IF cur < total
                    THEN [bar EXCEPT !.length = total, !.position = cur,
                                     !.message = <<"Cloning", cur, total>>]
                    ELSE bar
    /\ stats' = [stats EXCEPT !.phase = "checkout"]
    /\ UNCHANGED <<regVars, pipeVars, fmtVars>>

----------------------------------------------------------------------------
(* The formatters of the template engine: src/src/format.rs                *)

MaxStrLen == 2

\* The characters of the strings a formatter is given.
Chars == {"a", "B", "_", " "}

\* upon::Value: None, the variants that are no string, and strings.
ValueNone == <<"None">>

NonStringValues == {<<"Bool">>, <<"Integer">>, <<"Float">>, <<"List">>, <<"Map">>}

ValueString(str) == <<"String", str>>

FmtValues ==
    {ValueNone} \cup NonStringValues \cup
    {ValueString(str) : str \in BoundedSeq(Chars, MaxStrLen)}

IsLower(c) == c \in {"a", "b"}

IsUpper(c) == c \in {"A", "B"}

IsDelimiter(c) == c \in {"_", " ", "-"}

LowerChar(c) == CASE c = "A" -> "a" [] c = "B" -> "b" [] OTHER -> c

UpperChar(c) == CASE c = "a" -> "A" [] c = "b" -> "B" [] OTHER -> c

\* convert_case's boundaries between letters: before an upper-case letter
\* that follows a lower-case one, and before the last letter of a run of
\* upper-case letters that a lower-case letter follows.
IsBoundary(str, i) ==
    /\ i < Len(str)
    /\ \/ IsLower(str[i]) /\ IsUpper(str[i + 1])
       \/ /\ IsUpper(str[i]) /\ IsUpper(str[i + 1])
          /\ i + 2 <= Len(str) /\ IsLower(str[i + 2])

RECURSIVE SplitWords(_, _, _)
\* The words of str from position i on, `word` being the letters of the
\* word under way; an empty word is dropped.
SplitWords(str, i, word) ==
    LET done == IF word = <<>> THEN <<>> ELSE <<word>>
    IN  IF i > Len(str) THEN done
        ELSE IF IsDelimiter(str[i]) THEN done \o SplitWords(str, i + 1, <<>>)
        ELSE IF IsBoundary(str, i)
             THEN <<Append(word, str[i])>> \o SplitWords(str, i + 1, <<>>)
             ELSE SplitWords(str, i + 1, Append(word, str[i]))

Lowercase(word) == [i \in DOMAIN word |-> LowerChar(word[i])]

Uppercase(word) == [i \in DOMAIN word |-> UpperChar(word[i])]

Capital(word) ==
    [i \in DOMAIN word |-> IF i = 1 THEN UpperChar(word[i]) ELSE LowerChar(word[i])]

RECURSIVE Join(_, _)
Join(words, delim) ==
    IF words = <<>> THEN <<>>
    ELSE IF Len(words) = 1 THEN Head(words)
    ELSE Head(words) \o delim \o Join(Tail(words), delim)

\* The Case each formatter converts to.
Cases == {"Lower", "Upper", "Snake", "Kebab", "Pascal", "Camel", "Title"}

\* Casing::to_case: the words of the string, each in the pattern of the
\* case, joined by its delimiter.
ToCase(str, case) ==
    LET words == SplitWords(str, 1, <<>>)
        each(pattern(_)) == [i \in DOMAIN words |-> pattern(words[i])]
    IN  CASE case = "Lower" -> Join(each(Lowercase), <<" ">>)
          [] case = "Upper" -> Join(each(Uppercase), <<" ">>)
          [] case = "Snake" -> Join(each(Lowercase), <<"_">>)
          [] case = "Kebab" -> Join(each(Lowercase), <<"-">>)
          [] case = "Pascal" -> Join(each(Capital), <<>>)
          [] case = "Camel" ->
                Join([i \in DOMAIN words |->
                        IF i = 1 THEN Lowercase(words[i]) ELSE Capital(words[i])], <<>>)
          [] case = "Title" -> Join(each(Capital), <<" ">>)

\* A mutant of FormatValue: None is formatted as the empty string.
FormatValue_NoneIsEmpty(case, v) ==
    IF v = ValueNone THEN [ret |-> <<"Ok">>, out |-> <<>>]
    ELSE IF v[1] = "String" THEN [ret |-> <<"Ok">>, out |-> ToCase(v[2], case)]
    ELSE [ret |-> <<"Err", "expected to format a string">>, out |-> <<>>]

\* The match on the value that every formatter is: what it returns and
\* what it has written to the fmt::Formatter.
FormatValue(case, v) ==
    IF v = ValueNone THEN [ret |-> <<"Err", "unable to format None">>, out |-> <<>>]
    ELSE IF v[1] = "String" THEN [ret |-> <<"Ok">>, out |-> ToCase(v[2], case)]
    ELSE [ret |-> <<"Err", "expected to format a string">>, out |-> <<>>]

\* One call of a formatter on the value at hand.
Formatter(name, case) ==
    /\ fmt_result = <<>>
    /\ fmt_result' = <<name>> \o FormatValue(case, fmt_value).ret
    /\ fmt_out' = FormatValue(case, fmt_value).out
    /\ UNCHANGED fmt_value
    /\ UNCHANGED <<regVars, pipeVars, cloneVars>>

lower == Formatter("lower", "Lower")

upper == Formatter("upper", "Upper")

snake == Formatter("snake", "Snake")

kebab == Formatter("kebab", "Kebab")

pascal == Formatter("pascal", "Pascal")

camel == Formatter("camel", "Camel")

title == Formatter("title", "Title")

----------------------------------------------------------------------------
(* The specifications                                                      *)

\* No clone is under way.
IdleClone ==
    /\ stats = NoStats
    /\ clone_state = NewCloneState
    /\ bar = NewBar

\* No formatter is at work.
IdleFormat ==
    /\ fmt_value = ValueNone
    /\ fmt_out = <<>>
    /\ fmt_result = <<>>

\* The registry as Config::init writes it.
InitConfig ==
    /\ services = ConfigInitServices
    /\ default_service = ConfigInitDefault
    /\ result = [op |-> "init", prefix |-> "", repo_path |-> <<>>, ret |-> <<"Ok">>]

\* No run of main is under way.
IdlePipeline ==
    /\ pc = "Idle"
    /\ repo_path = <<>>
    /\ url = <<>>
    /\ tree = {}
    /\ content = <<>>
    /\ git_dir = FALSE
    /\ template_questions = <<>>
    /\ questions = <<>>
    /\ template_answers = "None"
    /\ warns = <<>>
    /\ walker = <<>>
    /\ path = <<>>
    /\ skip_all = FALSE
    /\ err = <<>>
    /\ log = <<>>
    /\ project_name = ""
    /\ directory = ""
    /\ dirs = {}

InitPipeline ==
    /\ InitConfig
    /\ pc = "Main"
    /\ repo_path \in References
    /\ url = <<>>
    /\ tree = {}
    /\ content = <<>>
    /\ git_dir = FALSE
    /\ template_questions = <<>>
    /\ questions = <<>>
    /\ template_answers = "None"
    /\ warns = <<>>
    /\ walker = <<>>
    /\ path = <<>>
    /\ skip_all = FALSE
    /\ err = <<>>
    /\ log = <<>>
    /\ project_name = ""
    /\ directory = ""
    /\ dirs \in {{}, {"myapp"}}
    /\ IdleClone
    /\ IdleFormat

\* The registry alone: the pipeline stands still at a run that has ended.
InitRegistry ==
    /\ InitConfig
    /\ IdlePipeline
    /\ IdleClone
    /\ IdleFormat

\* prompt_template_questions alone, called by init on the array of a
\* cpr.toml that was read and parsed.
InitQuestions ==
    /\ InitConfig
    /\ pc = "Prompting"
    /\ repo_path = <<"org/template">>
    /\ url = GitUrl(repo_path)
    /\ tree = {CprPath}
    /\ content = [p \in {CprPath} |-> "original"]
    /\ git_dir = FALSE
    /\ template_questions \in QuestionArrays
    /\ questions = <<>>
    /\ template_answers = "None"
    /\ warns = <<>>
    /\ walker = <<>>
    /\ path = <<>>
    /\ skip_all = FALSE
    /\ err = <<>>
    /\ log = <<>>
    /\ project_name = "myapp"
    /\ directory = InitDirectory
    /\ dirs = {InitDirectory}
    /\ IdleClone
    /\ IdleFormat

\* One clone and its callbacks.
InitClone ==
    /\ InitConfig
    /\ IdlePipeline
    /\ IdleClone
    /\ IdleFormat

\* One call of a formatter on a value.
InitFormat ==
    /\ InitConfig
    /\ IdlePipeline
    /\ IdleClone
    /\ fmt_value \in FmtValues
    /\ fmt_out = <<>>
    /\ fmt_result = <<>>

NextRegistry ==
    \/ clone_url
    \/ add_service
    \/ remove_service
    \/ set_default_service

NextPipeline ==
    \/ main
    \/ new
    \/ clone_repository
    \/ schema_check
    \/ interpret_question
    \/ prompt_questions
    \/ walk_next
    \/ read_file
    \/ render_file
    \/ write_file
    \/ cleanup

NextQuestions ==
    \/ interpret_question
    \/ prompt_questions

NextClone ==
    \/ transfer_progress
    \/ checkout_progress

NextFormat ==
    \/ lower
    \/ upper
    \/ snake
    \/ kebab
    \/ pascal
    \/ camel
    \/ title

SpecRegistry == InitRegistry /\ [][NextRegistry]_vars

SpecPipeline == InitPipeline /\ [][NextPipeline]_vars

SpecQuestions == InitQuestions /\ [][NextQuestions]_vars

SpecClone == InitClone /\ [][NextClone]_vars

SpecFormat == InitFormat /\ [][NextFormat]_vars

----------------------------------------------------------------------------
(* Properties                                                              *)

Range(seq) == {seq[i] : i \in DOMAIN seq}

RECURSIVE Concat(_)
Concat(pieces) ==
    IF pieces = <<>> THEN <<>> ELSE Head(pieces) \o Concat(Tail(pieces))

\* `format` with every occurrence of the marker replaced by `repo`, token by
\* token: the first token of an occurrence becomes `repo`, its second token
\* nothing, and every other token stays.  (The two tokens of the marker
\* differ, so occurrences do not overlap.)
Substituted(format, repo) ==
    Concat([i \in 1..Len(format) |->
                IF MatchAt(format, i, Marker) THEN repo
                ELSE IF i > 1 /\ MatchAt(format, i - 1, Marker) THEN <<>>
                ELSE <<format[i]>>])

\* C1: clone_url of a prefix that is a key of the registry returns that
\* service's URL format with the marker "{{ repo }}" replaced by the path;
\* of a prefix that is no key, while the default prefix is one, the default
\* service's URL format with the marker replaced by the path.
C1_CloneUrlResolves ==
    result.op = "clone_url" =>
        LET p == result.prefix
            x == result.repo_path
        IN  /\ p \in DOMAIN services =>
                result.ret = <<"Ok", Substituted(services[p], x)>>
            /\ (p \notin DOMAIN services /\ default_service \in DOMAIN services) =>
                result.ret = <<"Ok", Substituted(services[default_service], x)>>
            /\ (p \in DOMAIN services /\ services[p] = GithubUrl) =>
                result.ret = <<"Ok", <<"https://github.com/">> \o x \o <<".git">>>>

\* A clone_url of a prefix that is no key has fallen back to the default
\* service and put the path in the place of the marker.
C1_Witness ==
    /\ result.op = "clone_url"
    /\ result.prefix \notin DOMAIN services
    /\ default_service \in DOMAIN services
    /\ services[default_service] = GithubUrl
    /\ result.repo_path = <<"org/template">>
    /\ result.ret = <<"Ok", <<"https://github.com/", "org/template", ".git">>>>

\* C2: clone_url fails with the error value ServiceNotFound if and only if
\* neither the requested prefix nor the default prefix is a key of the
\* registry, and returns a URL in every other case.
C2_ServiceNotFoundIff ==
    result.op = "clone_url" =>
        LET neither == /\ result.prefix \notin DOMAIN services
                       /\ default_service \notin DOMAIN services
        IN  /\ (result.ret = <<"Err", "ServiceNotFound">>) <=> neither
            /\ ~neither => result.ret[1] = "Ok"

\* The reference split on its first ':' (a prefix is one token); without a
\* ':' the prefix is the registry's default and the path the reference.
ParseReference(reference, dflt) ==
    LET colons == {i \in DOMAIN reference : reference[i] = ":"}
    IN  IF colons = {} THEN [prefix |-> dflt, path |-> reference]
        ELSE LET first == CHOOSE i \in colons : \A j \in colons : i <= j
             IN  [prefix |-> IF first = 2 THEN reference[1] ELSE "",
                  path |-> SubSeq(reference, first + 1, Len(reference))]

\* The clone URL the registry resolves a reference to.
Resolve(reference, svc, dflt) ==
    LET parsed == ParseReference(reference, dflt)
    IN  CloneUrl(svc, dflt, parsed.prefix, parsed.path)

\* C3: the URL handed to the git clone is the resolution of the reference:
\* the reference split on its first ':' into prefix and path (no ':' means
\* the default prefix), and that service's URL format with the marker
\* replaced by the path; "gh:org/template" is cloned from
\* "https://github.com/org/template.git".
C3_CloneUrlIsResolution ==
    url # <<>> =>
        /\ <<"Ok", url>> = Resolve(repo_path, services, default_service)
        /\ repo_path = <<"gh", ":", "org/template">> =>
                url = <<"https://github.com/", "org/template", ".git">>

\* The log entries that show a read-failure prompt.
PromptEvents == ErrPolicies \cup {"prompt_failed"}

\* The log entries a fatal render or write failure leaves last.
RenderWriteFailures == {"add_template_failed", "render_failed", "write_failed"}

\* After "Skip all future errors": no later entry of the log is one of
\* `unexpected`, a file skipped later is as it was, a file read later is
\* rendered and written (or being worked on), and the run has not failed
\* other than by one of `excused`.
SkipAllHolds(unexpected, excused) ==
    /\ skip_all <=> \E i \in DOMAIN log : log[i][1] = "Skip all future errors"
    /\ \A i \in DOMAIN log : log[i][1] = "Skip all future errors" =>
          /\ \A j \in DOMAIN log : j > i =>
                /\ log[j][1] \notin unexpected
                /\ (log[j][1] = "skipped" /\ log[j][2] \in DOMAIN content) =>
                      content[log[j][2]] = "original"
                /\ log[j][1] = "read" =>
                      \/ /\ <<"written", log[j][2]>> \in Range(log)
                         /\ log[j][2] \in DOMAIN content =>
                                content[log[j][2]] = "rendered"
                      \/ /\ path = log[j][2]
                         /\ pc \in {"Rendering", "Writing", "Failed", "Panicked"}
          /\ pc \in {"Failed", "Panicked"} => log[Len(log)][1] \in excused

\* C4: once the user has answered "Skip all future errors", every later
\* file whose read fails is skipped without a prompt and left untouched,
\* every file whose read succeeds is rendered and written, and the run
\* fails only by a render or write failure; a prompt is shown only while
\* skip_all is false.
C4_SkipAllSkipsSilently ==
    SkipAllHolds(PromptEvents \cup {"read_failed"}, RenderWriteFailures)

\* The same with the panic on a failed read of a file whose name is not
\* UTF-8 set aside.
C4_SkipAllButForPanic ==
    SkipAllHolds(PromptEvents, RenderWriteFailures \cup {"read_failed"})

\* C5: when a read fails and the user answers "Abort", the run ends Failed
\* with ReadFileFail of that file's name; no later file is read, rendered or
\* written, the file is as it was, and the cleanup is not performed.
C5_AbortPropagatesReadFailure ==
    \A i \in DOMAIN log : log[i][1] = "Abort" =>
        /\ i = Len(log)
        /\ pc = "Failed"
        /\ err = <<"ReadFileFail", FileName(log[i][2])>>
        /\ path = log[i][2]
        /\ DOMAIN content = tree
        /\ content[path] = "original"
        /\ \A k \in DOMAIN walker : \A j \in DOMAIN log : log[j][2] # walker[k].path
        /\ "RemoveFailed" \notin Range(warns)

\* The run has ended with the read failure of an aborted file while the
\* walk still had a file to yield, and cpr.toml is still there.
C5_Witness ==
    /\ pc = "Failed"
    /\ err = <<"ReadFileFail", "a.txt">>
    /\ log[Len(log)] = <<"Abort", <<"a.txt">>>>
    /\ \E k \in DOMAIN walker : ~walker[k].is_dir
    /\ CprPath \in tree

\* C6: for a file whose read succeeded, a render failure or a write failure
\* ends the run Failed (with WriteFileFail for a write failure), whatever
\* skip_all is, and no later file is processed.
C6_RenderOrWriteFailureIsFatal ==
    \A i \in DOMAIN log : log[i][1] \in RenderWriteFailures =>
        /\ i = Len(log)
        /\ pc = "Failed"
        /\ log[i][1] = "write_failed" => err = <<"WriteFileFail", FileName(log[i][2])>>

\* The same with the panic on a failed write of a file whose name is not
\* UTF-8 counted as the end of the run.
C6_RenderOrWriteFailureEndsRun ==
    \A i \in DOMAIN log : log[i][1] \in RenderWriteFailures =>
        /\ i = Len(log)
        /\ pc \in {"Failed", "Panicked"}
        /\ pc = "Failed" /\ log[i][1] = "write_failed" =>
                err = <<"WriteFileFail", FileName(log[i][2])>>

\* The log entries that leave a file unread.
SkipEvents == {"skipped", "Skip this error", "Skip all future errors"}

\* C7: no rollback.  When the run has failed at a file of the walk, every
\* other file that was written holds its rendered content, and every other
\* file (skipped, or later in the walk) holds its original content.
C7_NoRollback ==
    pc \in {"Failed", "Panicked"} =>
        /\ DOMAIN content = tree
        /\ \A f \in tree : f # path =>
              content[f] = IF <<"written", f>> \in Range(log)
                           THEN "rendered"
                           ELSE "original"
        /\ \A i \in DOMAIN log : (log[i][1] \in SkipEvents /\ log[i][2] # path) =>
              content[log[i][2]] = "original"
        /\ \A k \in DOMAIN walker : ~walker[k].is_dir =>
              content[walker[k].path] = "original"

\* A write has failed after an earlier file was written and with a later
\* file still to come.
C7_Witness ==
    /\ pc = "Failed"
    /\ err = <<"WriteFileFail", "cpr.toml">>
    /\ <<"a.txt">> \in tree
    /\ content[<<"a.txt">>] = "rendered"
    /\ \E k \in DOMAIN walker : ~walker[k].is_dir

\* The order of paths: component by component, by file name, a directory
\* before what it holds.
PathLess(p, q) ==
    \/ IsPrefix(p, q)
    \/ \E k \in 1..Len(p) :
          /\ k <= Len(q)
          /\ SubSeq(p, 1, k - 1) = SubSeq(q, 1, k - 1)
          /\ NameIndex(p[k]) < NameIndex(q[k])

\* The log entries a file's turn in the walk starts with.
ReadEvents == {"read", "read_failed"} \cup PromptEvents \cup {"skipped"}

\* The files the walk has come to, in the order it came to them.
Visited ==
    LET IsRead(e) == e[1] \in ReadEvents
        reads == SelectSeq(log, IsRead)
    IN  [i \in DOMAIN reads |-> reads[i][2]]

\* The walk goes through the files in ascending path order, one at a time.
WalkInOrder ==
    /\ \A i, j \in DOMAIN Visited : i < j => PathLess(Visited[i], Visited[j])
    /\ \A i, j \in DOMAIN log :
          i < j => (log[i][2] = log[j][2] \/ PathLess(log[i][2], log[j][2]))

\* C8: in a run that reaches the cleanup, the walk has visited every file
\* below the target directory exactly once, in ascending path order, never
\* reading a file before the files that sort earlier are done with, and has
\* left no file out.
C8_WalkVisitsEveryFile ==
    pc = "Cleanup" => (Range(Visited) = tree /\ WalkInOrder)

\* The same for the files the walk yields: a file below a directory that
\* could not be listed is left out.
C8_WalkVisitsYieldedFiles ==
    pc = "Cleanup" => (Range(Visited) \subseteq tree /\ WalkInOrder)

\* C9: interpreting the questions array never aborts the run: an entry
\* without key, message or type, and a selection entry without choices, is
\* skipped with a warning and the entries after it are still interpreted.
C9_MalformedEntryNeverAborts ==
    pc = "Panicked" => err # <<"panic", "prompt_template_questions">>

\* C10 as stated: after the warning of a missing `questions`, of a
\* `questions` that is no array or of an element that is no table, the
\* question set used for prompting is empty.
C10_DeviationEmptiesQuestions ==
    Range(warns) \cap {"NoQuestions", "QuestionsNotArray", "ElementNotTable"} # {} =>
        questions = <<>>

\* A missing `questions` and a `questions` that is no array: no question
\* is asked, the answers stay None, and the run is in the walk or past it.
NoQuestionsAsked ==
    Range(warns) \cap {"NoQuestions", "QuestionsNotArray"} # {} =>
        /\ template_answers = "None"
        /\ questions = <<>>
        /\ template_questions = <<>>
        /\ pc \in {"Walking", "Reading", "Rendering", "Writing", "Cleanup",
                   "Done", "Failed", "Panicked"}
        /\ pc \in {"Failed", "Panicked"} => log # <<>>

\* An element that is no table: the step that meets it writes the warning,
\* leaves the questions built so far, and goes on to the next element.
NonTableElementSkipped ==
    (/\ pc = "Prompting"
     /\ template_questions # <<>>
     /\ Head(template_questions)[1] # "Table")
    => /\ warns' = Append(warns, "ElementNotTable")
       /\ questions' = questions
       /\ template_questions' = Tail(template_questions)
       /\ pc' = "Prompting"
       /\ err' = err

\* C10, amended: a missing `questions` and a `questions` that is no array
\* are warned of and non-fatal, no question is asked and the run goes on to
\* the walk; an element that is no table is warned of and skipped alone,
\* the other elements are still interpreted.
C10_DeviationIsSkippedWithWarning ==
    []NoQuestionsAsked /\ [][NonTableElementSkipped]_vars

\* An element that is no table was skipped, and the prompt about to be
\* shown still holds the question of another element.
C10_Witness ==
    /\ pc = "Prompting"
    /\ template_questions = <<>>
    /\ warns = <<"ElementNotTable">>
    /\ Len(questions) = 1

\* The errors of reading and parsing cpr.toml.
ConfigErrors == {<<"FileReadFail">>, <<"TomlParseFail">>}

\* C11: when cpr.toml exists and cannot be read or parsed, the run has
\* failed with FileReadFail or TomlParseFail before a question was asked
\* and before a file of the checkout was read, rendered or written; when
\* cpr.toml does not exist, the run goes on without answers and without a
\* schema error.
C11_SchemaFailureIsEarly ==
    /\ err \in ConfigErrors =>
          /\ pc = "Failed"
          /\ CprPath \in tree
          /\ questions = <<>>
          /\ template_answers = "None"
          /\ warns = <<>>
          /\ log = <<>>
          /\ \A p \in tree : content[p] = "original"
    /\ (CprPath \notin tree /\ pc \notin {"Main", "New", "Cloning", "Done"}) =>
          /\ err \notin ConfigErrors
          /\ template_answers = "None"
          /\ questions = <<>>
          /\ template_questions = <<>>
          /\ warns = <<>>

\* cpr.toml could not be parsed: the run has failed with another file of
\* the checkout untouched.
C11_Witness ==
    /\ pc = "Failed"
    /\ err = <<"TomlParseFail">>
    /\ tree = {<<"a.txt">>, CprPath}
    /\ content[<<"a.txt">>] = "original"

\* A checkout without cpr.toml has been rendered to the end.
C11_DoneWithoutCpr ==
    /\ pc = "Done"
    /\ template_answers = "None"
    /\ <<"written", <<"a.txt">>>> \in Range(log)
    /\ tree = {<<"a.txt">>}

\* The steps the pipeline may take from one state to the next.
PipelineOrder ==
    { <<"Main", "Cloning">>, <<"Main", "New">>, <<"New", "Cloning">>,
      <<"Cloning", "SchemaCheck">>,
      <<"SchemaCheck", "Prompting">>, <<"SchemaCheck", "Walking">>,
      <<"Prompting", "Prompting">>, <<"Prompting", "Walking">>,
      <<"Walking", "Walking">>, <<"Walking", "Reading">>,
      <<"Reading", "Rendering">>, <<"Reading", "Walking">>,
      <<"Rendering", "Writing">>, <<"Writing", "Walking">>,
      <<"Walking", "Cleanup">>, <<"Cleanup", "Done">> }

\* The states in which the run has ended.
Ended == {"Done", "Failed", "Panicked"}

\* One step of the run: it starts in a state that is no end, and goes to
\* the next state of the pipeline or to a failure; the walk starts after
\* the last question was interpreted and the prompt was answered, and the
\* cleanup after the last entry of the walk.
PipelineStep ==
    /\ pc \notin Ended
    /\ \/ <<pc, pc'>> \in PipelineOrder
       \/ pc' \in {"Failed", "Panicked"}
    /\ (pc = "Prompting" /\ pc' = "Walking") =>
          (template_questions = <<>> /\ template_answers' = "Map")
    /\ (pc = "Walking" /\ pc' = "Cleanup") => walker = <<>>
    /\ pc' = "Done" => pc = "Cleanup"

\* While a file is read, rendered or written, and from then on: the clone
\* has succeeded and no question is left to ask.
FilesAfterQuestions ==
    (pc \in {"Walking", "Reading", "Rendering", "Writing", "Cleanup", "Done"}
        \/ log # <<>>) =>
        /\ url # <<>>
        /\ ~git_dir
        /\ DOMAIN content = tree
        /\ template_questions = <<>>
        /\ questions = <<>>
        /\ pc \in {"Cleanup", "Done"} => walker = <<>>

\* C12: a run goes through Main/New (resolving), Cloning, SchemaCheck,
\* Prompting, Walking (per file Reading, Rendering, Writing), Cleanup and
\* Done in this order only: no file is rendered before the clone succeeded
\* and the questions were answered, the cleanup starts after the last file,
\* Done is reached through Cleanup alone, and no step follows a failure.
C12_PipelineOrder ==
    []FilesAfterQuestions /\ [][PipelineStep]_vars

\* A run that asked questions, wrote two files and ended.
C12_Witness ==
    /\ pc = "Done"
    /\ template_answers = "Map"
    /\ <<"written", <<"a.txt">>>> \in Range(log)
    /\ <<"written", CprPath>> \in Range(log)

\* C14: when clone_repository has returned Ok, <directory>/.git does not
\* exist, and the walk neither yields nor touches a file below .git; when
\* .git could not be removed, the run has failed with GitCloneFail without
\* reaching the schema check or the walk.
C14_GitDirRemovedOrCloneFails ==
    /\ pc \in {"SchemaCheck", "Prompting", "Walking", "Reading", "Rendering",
               "Writing", "Cleanup", "Done"} => ~git_dir
    /\ \A i \in DOMAIN log : log[i][2][1] # ".git"
    /\ \A k \in DOMAIN walker :
          walker[k].path = <<>> \/ walker[k].path[1] # ".git"
    /\ git_dir =>
          /\ pc = "Failed"
          /\ err = <<"GitCloneFail">>
          /\ log = <<>>
          /\ walker = <<>>
          /\ questions = <<>> /\ template_questions = <<>>
          /\ warns = <<>>

\* The checkout is on disk, .git could not be removed, and the run has
\* failed.
C14_Witness ==
    /\ git_dir
    /\ pc = "Failed"
    /\ err = <<"GitCloneFail">>
    /\ CprPath \in tree

\* The lower-cased form of the project names of the model.
LowerCased == [name \in {"MyApp", "myapp"} |-> "myapp"]

\* The step of new: when the lower-cased project name is a directory that
\* exists, the run fails with ProjectDirExists and the disk is as it was;
\* the run goes on to the clone only with the directory newly created.
NewStep ==
    pc = "New" =>
        LET project_dir == LowerCased[project_name]
        IN  IF project_dir \in dirs
            THEN /\ pc' = "Failed"
                 /\ err' = <<"ProjectDirExists">>
                 /\ UNCHANGED <<dirs, tree, content, git_dir, url, directory>>
            ELSE /\ pc' \in {"Cloning", "Failed"}
                 /\ pc' = "Failed" =>
                       (err' = <<"ProjectDirCreateFail">> /\ UNCHANGED <<dirs, url>>)
                 /\ pc' = "Cloning" =>
                       /\ dirs' = dirs \cup {project_dir}
                       /\ directory' = project_dir
                       /\ url' = <<>>

\* A run that has failed with ProjectDirExists found the directory there
\* and has attempted no clone.
DirExistsBeforeClone ==
    err = <<"ProjectDirExists">> =>
        /\ pc = "Failed"
        /\ LowerCased[project_name] \in dirs
        /\ url = <<>>
        /\ tree = {}

\* C16: in the new flow, a target directory (the lower-cased project name)
\* that exists fails the run with ProjectDirExists before a clone is
\* attempted and is left as it is; the clone is attempted only after the
\* directory was created.
C16_ExistingDirectoryFailsBeforeClone ==
    []DirExistsBeforeClone /\ [][NewStep]_vars

\* The project name "MyApp" met the directory "myapp".
C16_Witness ==
    /\ pc = "Failed"
    /\ err = <<"ProjectDirExists">>
    /\ project_name = "MyApp"
    /\ dirs = {"myapp"}

\* C13: over the transfer callbacks of a clone, the progress bar is reset
\* exactly once, at the first callback of the delta resolution (received =
\* total): never before it, and not again at a later one.
C13_ResetOnceAtTransition ==
    bar.resets = IF clone_state.started_resolution THEN 1 ELSE 0

\* What the code does: the bar is reset at every callback of the delta
\* resolution but the first, and at no callback of the object transfer.
C13_ResetAtEveryLaterCallback ==
    [][stats'.phase = "fetch" =>
          bar'.resets = IF /\ stats'.received_objects = stats'.total_objects
                           /\ clone_state.started_resolution
                        THEN bar.resets + 1
                        ELSE bar.resets]_vars

\* C15: each of the seven formatters returns Ok exactly when the value is a
\* string; for None and for a value of any other kind it returns an error
\* and has written nothing.
C15_FormatsStringsOnly ==
    fmt_result # <<>> =>
        /\ fmt_result[1] \in {"lower", "upper", "snake", "kebab", "pascal",
                              "camel", "title"}
        /\ fmt_result[2] \in {"Ok", "Err"}
        /\ fmt_result[2] = "Ok" <=> fmt_value[1] = "String"
        /\ fmt_result[2] = "Err" => fmt_out = <<>>
        /\ (fmt_value[1] = "String" /\ fmt_value[2] # <<>>
               /\ \E i \in DOMAIN fmt_value[2] : fmt_value[2][i] \notin {"_", " "})
              => fmt_out # <<>>

\* title has refused a list.
C15_Witness ==
    /\ fmt_value = <<"List">>
    /\ fmt_result = <<"title", "Err", "expected to format a string">>
    /\ fmt_out = <<>>

\* snake has formatted a string.
C15_SnakeOfString ==
    /\ fmt_value = ValueString(<<"a", "B">>)
    /\ fmt_result = <<"snake", "Ok">>
    /\ fmt_out = <<"a", "_", "b">>

IsString(v) == v[1] = "String"

\* The entry to interpret next.
NextEntry == Head(template_questions)

\* The strings of a `choices` array, in their order.
StringChoices(choices) ==
    LET strings == SelectSeq(choices, IsString)
    IN  [i \in DOMAIN strings |-> strings[i][2]]

\* The list a select or multi_select is to be given: a separator where
\* "cpr_sep" stands, the choice elsewhere.
WithSeparators(choices) ==
    LET strings == StringChoices(choices)
    IN  [i \in DOMAIN strings |->
            IF strings[i] = CprSep THEN <<"DefaultSeparator">>
            ELSE <<"Choice", strings[i]>>]

\* The list an order_select is to be given: the choices other than
\* "cpr_sep", in their order.
WithoutSeparators(choices) ==
    LET IsReal(c) == c # CprSep
        real == SelectSeq(StringChoices(choices), IsReal)
    IN  [i \in DOMAIN real |-> <<"Choice", real[i]>>]

\* An entry with key, message and type, of a selection type, with an array
\* of choices.
IsSelectionEntry(entry) ==
    /\ entry[1] = "Table"
    /\ IsString(entry[2].key) /\ IsString(entry[2].message)
    /\ IsString(entry[2].type) /\ entry[2].type[2] \in SelectTypes
    /\ entry[2].choices[1] = "Array"

\* The step that interprets a selection entry adds one question, whose
\* list is the one its type is to be given.
SelectionStep ==
    (pc = "Prompting" /\ template_questions # <<>> /\ IsSelectionEntry(NextEntry)) =>
        LET table == NextEntry[2]
            expected == IF table.type[2] = "order_select"
                        THEN WithoutSeparators(table.choices[2])
                        ELSE WithSeparators(table.choices[2])
        IN  /\ Len(questions') = Len(questions) + 1
            /\ \E i \in DOMAIN questions' :
                  /\ questions'[i].name = table.key[2]
                  /\ questions'[i].type = table.type[2]
                  /\ questions'[i].choices = expected

\* C17: of a selection entry's choices (strings, in their order), the list
\* built for an order_select holds the choices other than "cpr_sep" and no
\* separator; the list built for a select or a multi_select holds a
\* separator at each place of a "cpr_sep" and the choice at every other.
C17_SeparatorHandling == [][SelectionStep]_vars

\* A multi_select was built from choices with "cpr_sep" between two others.
C17_Witness ==
    \E i \in DOMAIN questions :
        /\ questions[i].type = "multi_select"
        /\ questions[i].choices =
              <<(<<"Choice", "b">>), <<"DefaultSeparator">>, <<"Choice", "a">>>>

\* An order_select was built without its separator.
C17_OrderSelectBuilt ==
    \E i \in DOMAIN questions :
        /\ questions[i].type = "order_select"
        /\ questions[i].choices = <<(<<"Choice", "b">>), <<"Choice", "a">>>>

\* An entry that yields a question: a table with key, message and one of
\* the seven types, and for a selection type an array of choices.
IsAccepted(entry) ==
    /\ entry[1] = "Table"
    /\ IsString(entry[2].key) /\ IsString(entry[2].message)
    /\ IsString(entry[2].type)
    /\ \/ entry[2].type[2] \in QuestionTypes \ SelectTypes
       \/ IsSelectionEntry(entry)

\* One turn of the loop: the question of an accepted entry is put after
\* the questions of the entries before it; any other entry leaves the
\* questions as they are.
OrderStep ==
    (pc = "Prompting" /\ template_questions # <<>>) =>
        /\ template_questions' = Tail(template_questions)
        /\ IF IsAccepted(NextEntry)
           THEN /\ Len(questions') = Len(questions) + 1
                /\ SubSeq(questions', 1, Len(questions)) = questions
                /\ questions'[Len(questions')].name = NextEntry[2].key[2]
                /\ questions'[Len(questions')].type = NextEntry[2].type[2]
                /\ questions'[Len(questions')].message = NextEntry[2].message[2]
           ELSE questions' = questions

\* The prompt is shown with the questions in the order they were built
\* in: nothing but the loop changes them before it.
PromptStep ==
    (pc = "Prompting" /\ template_questions = <<>>) => pc' # "Prompting"

\* C18: the questions are the accepted entries in the order of the array:
\* each accepted entry's question goes after those of the entries before
\* it, and a skipped entry changes nothing.
C18_QuestionsInArrayOrder == [][OrderStep /\ PromptStep]_vars

\* Two entries were accepted around one that was skipped.
C18_Witness ==
    /\ pc = "Prompting"
    /\ template_questions = <<>>
    /\ Len(questions) = 2
    /\ questions[1].name = "k2" /\ questions[2].name = "k1"
    /\ warns = <<"ElementNotTable">>

\* C19: the question of a select, multi_select or order_select has at
\* least one real choice, and the question of any other type has no
\* choices.
C19_SelectionHasChoices ==
    \A i \in DOMAIN questions :
        IF questions[i].type \in SelectTypes
        THEN \E k \in DOMAIN questions[i].choices :
                questions[i].choices[k][1] = "Choice"
        ELSE questions[i].choices = <<>>

\* An entry with key and message whose type is a string that is none of
\* the seven.
HasUnknownType(entry) ==
    /\ entry[1] = "Table"
    /\ IsString(entry[2].key) /\ IsString(entry[2].message)
    /\ IsString(entry[2].type) /\ entry[2].type[2] \notin QuestionTypes

\* The step that meets an unknown type writes the warning, adds no
\* question, and goes on with the next entry.
UnknownTypeStep ==
    (pc = "Prompting" /\ template_questions # <<>> /\ HasUnknownType(NextEntry)) =>
        /\ warns' = Append(warns, "UnknownType")
        /\ questions' = questions
        /\ template_questions' = Tail(template_questions)
        /\ pc' = "Prompting"
        /\ err' = err

\* C20: an entry with key and message whose type is none of the seven
\* yields no question and a warning, does not end the run, and the entries
\* before and after it still yield their questions.
C20_UnknownTypeSkipped == [][UnknownTypeStep]_vars

\* An entry of unknown type was skipped between two that were accepted.
C20_Witness ==
    /\ pc = "Prompting"
    /\ template_questions = <<>>
    /\ warns = <<"UnknownType">>
    /\ Len(questions) = 2
    /\ questions[1].name = "k1" /\ questions[2].name = "k2"

\* The step of the cleanup: it ends the run in Done without an error; a
\* cpr.toml that exists is removed, or stays with the warning; no other
\* file is removed or changed.
CleanupStep ==
    pc = "Cleanup" =>
        /\ pc' = "Done"
        /\ err' = err
        /\ tree \ {CprPath} \subseteq tree'
        /\ tree' \subseteq tree
        /\ \A p \in tree' : content'[p] = content[p]
        /\ IF CprPath \in tree
           THEN \/ CprPath \notin tree' /\ warns' = warns
                \/ CprPath \in tree' /\ warns' = Append(warns, "RemoveFailed")
           ELSE warns' = warns

\* A run that is Done has returned no error, and cpr.toml is gone or the
\* warning of its removal was written.
DoneIsCleaned ==
    pc = "Done" =>
        /\ err = <<>>
        /\ DOMAIN content = tree
        /\ CprPath \notin tree \/ "RemoveFailed" \in Range(warns)
        /\ "RemoveFailed" \in Range(warns) => CprPath \in tree

\* C21: in a run that reaches Done, a cpr.toml that existed was removed or
\* the warning of the failed removal was written; the failed removal does
\* not fail the run, and the cleanup removes no other file.
C21_CleanupRemovesCprOrWarns ==
    []DoneIsCleaned /\ [][CleanupStep]_vars

\* cpr.toml could not be removed: the run is Done with the warning, and
\* another file that was written is still there.
C21_Witness ==
    /\ pc = "Done"
    /\ warns = <<"RemoveFailed">>
    /\ tree = {<<"a.txt">>, CprPath}
    /\ content[<<"a.txt">>] = "rendered"

\* cpr.toml was removed and the other file was left.
C21_CprRemoved ==
    /\ pc = "Done"
    /\ <<"written", CprPath>> \in Range(log)
    /\ tree = {<<"a.txt">>}
    /\ warns = <<>>

\* C22 as stated: in every state of the registry the default prefix is a
\* key of the services.
C22_DefaultIsAlwaysAKey == default_service \in DOMAIN services

\* One call on the registry, told by what it returned: set_default_service
\* and remove_service of a prefix that is no key return ServiceNotFound and
\* change nothing; of a key, they set the default and remove the entry;
\* add_service and clone_url leave the default.
RegistryStep ==
    LET p == result'.prefix
    IN  /\ result'.op = "set_default_service" =>
              /\ services' = services
              /\ IF p \in DOMAIN services
                 THEN default_service' = p /\ result'.ret = <<"Ok">>
                 ELSE /\ default_service' = default_service
                      /\ result'.ret = <<"Err", "ServiceNotFound">>
        /\ result'.op = "remove_service" =>
              /\ default_service' = default_service
              /\ IF p \in DOMAIN services
                 THEN /\ DOMAIN services' = DOMAIN services \ {p}
                      /\ \A q \in DOMAIN services' : services'[q] = services[q]
                      /\ result'.ret = <<"Ok">>
                 ELSE /\ services' = services
                      /\ result'.ret = <<"Err", "ServiceNotFound">>
        /\ result'.op = "add_service" =>
              /\ default_service' = default_service
              /\ DOMAIN services' = DOMAIN services \cup {p}
        /\ result'.op = "clone_url" =>
              /\ default_service' = default_service
              /\ services' = services

\* The default prefix stops being a key only by remove_service of it.
DefaultLostByRemovalAlone ==
    (default_service \in DOMAIN services /\ default_service' \notin DOMAIN services')
        => /\ result'.op = "remove_service"
           /\ result'.prefix = default_service
           /\ result'.ret = <<"Ok">>

\* C22, amended: from the registry of Config::init on, the default prefix
\* is a key of the services until remove_service removes that very entry
\* (which it does without complaint); set_default_service and
\* remove_service of a prefix that is no key return ServiceNotFound and
\* leave the registry as it is.
C22_DefaultIsAKeyUntilRemoved ==
    [][RegistryStep /\ DefaultLostByRemovalAlone]_vars

\* The default entry was removed, and set_default_service of a prefix that
\* is no key was refused: the default prefix is still no key.
C22_Witness ==
    /\ result.op = "set_default_service"
    /\ result.ret = <<"Err", "ServiceNotFound">>
    /\ default_service = "gh"
    /\ default_service \notin DOMAIN services
    /\ services # <<>>

\* The log entries about cpr.toml at the root of the target directory.
CprEvents == {i \in DOMAIN log : log[i][2] = CprPath}

\* C23: cpr.toml is a file of the walk like any other.  In a run that has
\* come to the cleanup with cpr.toml on disk, the walk has visited it once
\* and in its place in the order, unless the walk has visited no file at
\* all; it is read, rendered and written after the questions were dealt
\* with and while it is still on disk; and a failure to read, render or
\* write it is treated as for any file: "Abort" fails the run with
\* ReadFileFail, a skip leaves it as it was, a render or write failure
\* fails the run.
C23_CprIsWalkedLikeAnyFile ==
    /\ (pc = "Cleanup" /\ CprPath \in tree /\ Visited # <<>>) =>
          /\ Cardinality({i \in DOMAIN Visited : Visited[i] = CprPath}) = 1
          /\ WalkInOrder
    /\ CprEvents # {} =>
          /\ pc \in {"Walking", "Reading", "Rendering", "Writing", "Cleanup",
                     "Done", "Failed", "Panicked"}
          /\ template_questions = <<>> /\ questions = <<>>
          /\ pc # "Done" => CprPath \in tree
    /\ \A i \in CprEvents :
          /\ log[i][1] = "Abort" =>
                (pc = "Failed" /\ err = <<"ReadFileFail", "cpr.toml">> /\ i = Len(log))
          /\ log[i][1] \in RenderWriteFailures => (pc = "Failed" /\ i = Len(log))
          /\ log[i][1] = "write_failed" => err = <<"WriteFileFail", "cpr.toml">>
          /\ (log[i][1] \in SkipEvents \cup {"Abort"} /\ CprPath \in tree) =>
                content[CprPath] = "original"
          /\ (log[i][1] = "written" /\ CprPath \in tree) =>
                content[CprPath] = "rendered"

\* The questions were answered, a.txt was written, and the read of
\* cpr.toml failed and was aborted: the run has failed.
C23_Witness ==
    /\ pc = "Failed"
    /\ template_answers = "Map"
    /\ <<"written", <<"a.txt">>>> \in Range(log)
    /\ log[Len(log)] = <<"Abort", CprPath>>
    /\ err = <<"ReadFileFail", "cpr.toml">>

\* cpr.toml was rendered and written, and the cleanup is next.
C23_CprWritten ==
    /\ pc = "Cleanup"
    /\ CprPath \in tree
    /\ content[CprPath] = "rendered"
    /\ Visited = <<(<<"a.txt">>), CprPath, <<"src", "a.txt">>>>

====
